---------------------------- MODULE Spec2Model ----------------------------
(***************************************************************************)
(* Model of editor/convert/convert.js: the converter of Google Sheets HTML *)
(* exports to .wsheet documents.                                           *)
(*                                                                         *)
(* Text is modelled as a sequence of one-character strings, so that the    *)
(* conversions of the code (trim, toLowerCase, the regular expressions of  *)
(* normColor and parsePtPx, split) are computed and not assumed.  A JS     *)
(* object with optional keys is a function whose DOMAIN is the set of keys *)
(* present.                                                                *)
(*                                                                         *)
(* Three specifications share the module:                                  *)
(*   SpecCss    the style-map loop of convertHtml (lines 75-85)            *)
(*   SpecTable  convertHtml from the finished style map to its result      *)
(*   SpecBatch  the main script: listing, batch loop, index rebuild        *)
(***************************************************************************)
EXTENDS Integers, Sequences, FiniteSets, TLC

VARIABLES
    \* ---- convertHtml
    pc,          \* position in convertHtml
    cssRules,    \* the rules matched by cssRe so far, in match order (input log)
    styleMap,    \* styleMap: class name -> style record
    tableIn,     \* the rows of the tbody read so far, each the cells read (input log)
    rowIn,       \* the cells of the current row read so far (input log)
    aoa,         \* aoa: the rows collected
    rowData,     \* rowData of the current row
    colIdx,      \* colIdx of the current row
    rowIdx,      \* rowIdx of the current row
    formats,     \* formats: row -> col -> fmt
    borders,     \* borders: row -> col -> {top,bottom,left,right}
    data,        \* trimmedData of the returned document
    \* ---- main script
    bpc,         \* position in the main script
    srcDir,      \* DIR: file name -> content
    outDir,      \* DATA_DIR: file name -> content
    files,       \* files: the listing of line 162
    fileIdx,     \* position of the for-of loop in files
    ok,          \* ok
    fail,        \* fail
    indexJson,   \* content of data/index.json
    log          \* per file of the loop, in order: what the iteration did

convVars  == <<pc, cssRules, styleMap, tableIn, rowIn, aoa, rowData, colIdx,
               rowIdx, formats, borders, data>>
batchVars == <<bpc, srcDir, outDir, files, fileIdx, ok, fail, indexJson, log>>
vars      == <<convVars, batchVars>>

---------------------------------------------------------------------------
(* Bounds of the model *)
MaxRules == 2
MaxRows  == 3
MaxCells == 2
MaxFiles == 2

---------------------------------------------------------------------------
(* Text helpers *)

UpperLetters == <<"A","B","C","D","E","F","G","H","I","J","K","L","M",
                  "N","O","P","Q","R","S","T","U","V","W","X","Y","Z">>
LowerLetters == <<"a","b","c","d","e","f","g","h","i","j","k","l","m",
                  "n","o","p","q","r","s","t","u","v","w","x","y","z">>
DigitChars   == <<"0","1","2","3","4","5","6","7","8","9">>
HexChars     == <<"0","1","2","3","4","5","6","7","8","9","a","b","c","d","e","f">>

Range(s) == { s[i] : i \in DOMAIN s }

\* the lower-case letter of each capital
LowerOf ==
    [c \in Range(UpperLetters) |->
        LowerLetters[CHOOSE i \in DOMAIN UpperLetters : UpperLetters[i] = c]]

\* String.prototype.toLowerCase, one character
LowerChar(c) == IF c \in DOMAIN LowerOf THEN LowerOf[c] ELSE c

\* String.prototype.toLowerCase
toLowerCase(s) == [i \in DOMAIN s |-> LowerChar(s[i])]

IsDigit(c) == c \in Range(DigitChars)
IsHexDigit(c) == LowerChar(c) \in Range(HexChars)
IsSpace(c) == c = " "

DigitVal(c) == (CHOOSE i \in DOMAIN DigitChars : DigitChars[i] = c) - 1

RECURSIVE LeadingSpaces(_)
LeadingSpaces(s) ==
    IF s # <<>> /\ IsSpace(Head(s)) THEN 1 + LeadingSpaces(Tail(s)) ELSE 0

RECURSIVE TrailingSpaces(_)
TrailingSpaces(s) ==
    IF s # <<>> /\ IsSpace(s[Len(s)])
    THEN 1 + TrailingSpaces(SubSeq(s, 1, Len(s) - 1)) ELSE 0

\* String.prototype.trim
trim(s) ==
    IF LeadingSpaces(s) = Len(s) THEN <<>>
    ELSE SubSeq(s, LeadingSpaces(s) + 1, Len(s) - TrailingSpaces(s))

\* String.prototype.startsWith
startsWith(s, p) == Len(s) >= Len(p) /\ SubSeq(s, 1, Len(p)) = p

\* String.prototype.includes
includes(s, p) ==
    \E i \in 1..(Len(s) - Len(p) + 1) : SubSeq(s, i, i + Len(p) - 1) = p

\* String.prototype.split on a one-character separator
RECURSIVE split(_, _)
split(s, sep) ==
    IF \A i \in DOMAIN s : s[i] # sep THEN <<s>>
    ELSE LET k == CHOOSE i \in DOMAIN s :
                     s[i] = sep /\ \A j \in 1..(i - 1) : s[j] # sep
         IN <<SubSeq(s, 1, k - 1)>> \o split(SubSeq(s, k + 1, Len(s)), sep)

\* the index after the run of digits that starts at i
RECURSIVE DigitsEnd(_, _)
DigitsEnd(s, i) ==
    IF i <= Len(s) /\ IsDigit(s[i]) THEN DigitsEnd(s, i + 1) ELSE i

\* the index after the run of white space that starts at i
RECURSIVE SpacesEnd(_, _)
SpacesEnd(s, i) ==
    IF i <= Len(s) /\ IsSpace(s[i]) THEN SpacesEnd(s, i + 1) ELSE i

\* the decimal value of the digits s[a..b-1]
RECURSIVE DecValue(_, _, _)
DecValue(s, a, b) ==
    IF b <= a THEN 0 ELSE DecValue(s, a, b - 1) * 10 + DigitVal(s[b - 1])

\* Number.prototype.toString(16)
RECURSIVE toString16(_)
toString16(n) ==
    IF n < 16 THEN <<HexChars[n + 1]>>
    ELSE toString16(n \div 16) \o <<HexChars[(n % 16) + 1]>>

\* String.prototype.padStart(2, '0')
padStart2(s) == IF Len(s) < 2 THEN <<"0">> \o s ELSE s

\* obj[k] = v
Put(f, k, v) == [x \in (DOMAIN f) \cup {k} |-> IF x = k THEN v ELSE f[x]]

\* the empty object {}
EmptyObj == [x \in {} |-> TRUE]

Has(f, k) == k \in DOMAIN f

---------------------------------------------------------------------------
(* CSS helpers *)

\* /^([\d.]+)pt$/i or /^([\d.]+)px$/i : the number part when val is a run of
\* digits and dots followed by the unit, else <<>>
NumberBefore(val, unit) ==
    LET n == Len(val) - 2 IN
    IF /\ n >= 1
       /\ toLowerCase(SubSeq(val, n + 1, n + 2)) = unit
       /\ \A i \in 1..n : IsDigit(val[i]) \/ val[i] = "."
    THEN SubSeq(val, 1, n) ELSE <<>>

\* parseFloat of a run of digits and dots, in thousandths; -1 for NaN.
\* parseFloat reads digits, one dot, digits, and stops at a second dot.
parseFloatMilli(num) ==
    LET e1 == DigitsEnd(num, 1)
        hasDot == e1 <= Len(num) /\ num[e1] = "."
        e2 == IF hasDot THEN DigitsEnd(num, e1 + 1) ELSE e1
        fracLen == IF hasDot THEN e2 - (e1 + 1) ELSE 0
        f1 == IF fracLen >= 1 THEN DigitVal(num[e1 + 1]) ELSE 0
        f2 == IF fracLen >= 2 THEN DigitVal(num[e1 + 2]) ELSE 0
        f3 == IF fracLen >= 3 THEN DigitVal(num[e1 + 3]) ELSE 0
    IN IF e1 = 1 /\ fracLen = 0 THEN -1
       ELSE DecValue(num, 1, e1) * 1000 + f1 * 100 + f2 * 10 + f3

\* Math.round of a value given in millionths
RoundMicro(x) == (x + 500000) \div 1000000

\* parsePtPx; 0 stands for every value `if (s)` rejects (null, NaN, 0)
parsePtPx(val) ==
    LET pt == NumberBefore(val, <<"p","t">>)
        px == NumberBefore(val, <<"p","x">>)
    IN IF pt # <<>>
       THEN IF parseFloatMilli(pt) < 0 THEN 0
            ELSE RoundMicro(parseFloatMilli(pt) * 1333)
       ELSE IF px # <<>>
       THEN IF parseFloatMilli(px) < 0 THEN 0
            ELSE RoundMicro(parseFloatMilli(px) * 1000)
       ELSE 0

\* /^#[0-9a-f]{3,6}$/i
IsHexColor(val) ==
    /\ Len(val) >= 4
    /\ Len(val) <= 7
    /\ val[1] = "#"
    /\ \A i \in 2..Len(val) : IsHexDigit(val[i])

\* /^rgb\((\d+),\s*(\d+),\s*(\d+)\)$/i : the three components, or <<>>
MatchRgb(val) ==
    LET e1 == DigitsEnd(val, 5)
        b2 == SpacesEnd(val, e1 + 1)
        e2 == DigitsEnd(val, b2)
        b3 == SpacesEnd(val, e2 + 1)
        e3 == DigitsEnd(val, b3)
    IN IF /\ Len(val) >= 5
          /\ toLowerCase(SubSeq(val, 1, 4)) = <<"r","g","b","(">>
          /\ e1 > 5 /\ e1 <= Len(val) /\ val[e1] = ","
          /\ e2 > b2 /\ e2 <= Len(val) /\ val[e2] = ","
          /\ e3 > b3 /\ e3 = Len(val) /\ val[e3] = ")"
       THEN <<DecValue(val, 5, e1), DecValue(val, b2, e2), DecValue(val, b3, e3)>>
       ELSE <<>>

\* normColor; <<>> stands for null
normColor(v) ==
    LET val == trim(v)
        m == MatchRgb(val)
    IN IF IsHexColor(val) THEN toLowerCase(val)
       ELSE IF m # <<>>
       THEN <<"#">> \o padStart2(toString16(m[1]))
                    \o padStart2(toString16(m[2]))
                    \o padStart2(toString16(m[3]))
       ELSE <<>>

---------------------------------------------------------------------------
(* The literals of parseCssClass and convertHtml *)

K_font_weight == <<"f","o","n","t","-","w","e","i","g","h","t">>
K_font_style == <<"f","o","n","t","-","s","t","y","l","e">>
K_color == <<"c","o","l","o","r">>
K_background_color == <<"b","a","c","k","g","r","o","u","n","d","-","c","o","l","o","r">>
K_text_align == <<"t","e","x","t","-","a","l","i","g","n">>
K_font_size == <<"f","o","n","t","-","s","i","z","e">>
K_font_family == <<"f","o","n","t","-","f","a","m","i","l","y">>
K_border_top == <<"b","o","r","d","e","r","-","t","o","p">>
K_border_bottom == <<"b","o","r","d","e","r","-","b","o","t","t","o","m">>
K_border_left == <<"b","o","r","d","e","r","-","l","e","f","t">>
K_border_right == <<"b","o","r","d","e","r","-","r","i","g","h","t">>
V_bold == <<"b","o","l","d">>
V_italic == <<"i","t","a","l","i","c">>
V_left == <<"l","e","f","t">>
V_center == <<"c","e","n","t","e","r">>
V_right == <<"r","i","g","h","t">>
V_none == <<"n","o","n","e">>
V_docs == <<"d","o","c","s","-">>
V_black == <<"#","0","0","0","0","0","0">>
V_white == <<"#","f","f","f","f","f","f">>

\* !vl.includes('none') too sharp: only the value none itself
BorderFlag_exact(vl) == vl # V_none

\* !vl.includes('none') of lines 57-60
BorderFlag(vl) == ~includes(vl, V_none)

\* one declaration of the list: raw is a piece of decls.split(';')
ApplyDecl(result, raw) ==
    IF \A i \in DOMAIN raw : raw[i] # ":" THEN result
    ELSE
    LET colon == CHOOSE i \in DOMAIN raw :
                     raw[i] = ":" /\ \A j \in 1..(i - 1) : raw[j] # ":"
        key == toLowerCase(trim(SubSeq(raw, 1, colon - 1)))
        val == trim(SubSeq(raw, colon + 1, Len(raw)))
        vl  == toLowerCase(val)
        families == [i \in DOMAIN split(val, ",") |->
                        trim(SelectSeq(split(val, ",")[i],
                                       LAMBDA c : c \notin {"\"", "'"}))]
        plain == { i \in DOMAIN families :
                       ~startsWith(toLowerCase(families[i]), V_docs) }
        found == IF plain = {} THEN <<>>
                 ELSE families[CHOOSE i \in plain : \A j \in plain : i <= j]
    IN
    IF key = K_font_weight /\ vl = V_bold THEN Put(result, "bold", TRUE)
    ELSE IF key = K_font_style /\ vl = V_italic THEN Put(result, "italic", TRUE)
    ELSE IF key = K_color
    THEN IF normColor(val) # <<>> THEN Put(result, "color", normColor(val))
         ELSE result
    ELSE IF key = K_background_color
    THEN IF normColor(val) # <<>> THEN Put(result, "bgColor", normColor(val))
         ELSE result
    ELSE IF key = K_text_align
    THEN IF vl \in {V_left, V_center, V_right} THEN Put(result, "align", vl)
         ELSE result
    ELSE IF key = K_font_size
    THEN IF parsePtPx(val) # 0 THEN Put(result, "fontSize", parsePtPx(val))
         ELSE result
    ELSE IF key = K_font_family
    THEN Put(result, "fontFamily", IF found # <<>> THEN found ELSE families[1])
    ELSE IF key = K_border_top    THEN Put(result, "borderTop",    BorderFlag(vl))
    ELSE IF key = K_border_bottom THEN Put(result, "borderBottom", BorderFlag(vl))
    ELSE IF key = K_border_left   THEN Put(result, "borderLeft",   BorderFlag(vl))
    ELSE IF key = K_border_right  THEN Put(result, "borderRight",  BorderFlag(vl))
    ELSE result

RECURSIVE ApplyDecls(_, _)
ApplyDecls(result, raws) ==
    IF raws = <<>> THEN result
    ELSE ApplyDecls(ApplyDecl(result, Head(raws)), Tail(raws))

\* parseCssClass
parseCssClass(decls) == ApplyDecls(EmptyObj, split(decls, ";"))

\* styleMap[cm[1]] = parseCssClass(cm[2]) : one match of cssRe
ApplyRule(map, rule) == Put(map, rule.cls, parseCssClass(rule.decls))

\* the two nested while loops over styleRe and cssRe, on the rules they match
RECURSIVE BuildStyleMap(_, _)
BuildStyleMap(map, rules) ==
    IF rules = <<>> THEN map
    ELSE BuildStyleMap(ApplyRule(map, Head(rules)), Tail(rules))

---------------------------------------------------------------------------
(* Inputs: declaration lists of style rules *)

\* "font-weight:bold;color:#FF0000"
D_boldRed ==
    <<"f","o","n","t","-","w","e","i","g","h","t",":","b","o","l","d",";","c","o","l","o","r",":","#","F","F","0","0","0","0">>
\* "Font-Style: Italic; background-color: rgb(255, 0, 0)"
D_italicBg ==
    <<"F","o","n","t","-","S","t","y","l","e",":"," ","I","t","a","l","i","c",";"," ","b","a","c","k","g","r","o","u","n","d","-","c","o","l","o","r",":"," ","r","g","b","(","2","5","5",","," ","0",","," ","0",")">>
\* "color:#000000;background-color:#ffffff"
D_defaults ==
    <<"c","o","l","o","r",":","#","0","0","0","0","0","0",";","b","a","c","k","g","r","o","u","n","d","-","c","o","l","o","r",":","#","f","f","f","f","f","f">>
\* "font-size:12pt;text-align:center"
D_sizeAlign ==
    <<"f","o","n","t","-","s","i","z","e",":","1","2","p","t",";","t","e","x","t","-","a","l","i","g","n",":","c","e","n","t","e","r">>
\* "font-family:docs-Foo,Arial"
D_family ==
    <<"f","o","n","t","-","f","a","m","i","l","y",":","d","o","c","s","-","F","o","o",",","A","r","i","a","l">>
\* "font-family:"
D_familyEmpty ==
    <<"f","o","n","t","-","f","a","m","i","l","y",":">>
\* "border-left:1px solid #000"
D_borderLeft ==
    <<"b","o","r","d","e","r","-","l","e","f","t",":","1","p","x"," ","s","o","l","i","d"," ","#","0","0","0">>
\* "border-left:none;border-top: NONE"
D_borderNone ==
    <<"b","o","r","d","e","r","-","l","e","f","t",":","n","o","n","e",";","b","o","r","d","e","r","-","t","o","p",":"," ","N","O","N","E">>
\* "border-top:1px;border-bottom:0 none"
D_borderMixed ==
    <<"b","o","r","d","e","r","-","t","o","p",":","1","p","x",";","b","o","r","d","e","r","-","b","o","t","t","o","m",":","0"," ","n","o","n","e">>
\* "color: #FFF "
D_hex3 ==
    <<"c","o","l","o","r",":"," ","#","F","F","F"," ">>
\* "color:#abcd"
D_hex4 ==
    <<"c","o","l","o","r",":","#","a","b","c","d">>
\* "color:rgb(300,0,0)"
D_rgbBig ==
    <<"c","o","l","o","r",":","r","g","b","(","3","0","0",",","0",",","0",")">>
\* "color:blue;font-size:12em;bogus"
D_named ==
    <<"c","o","l","o","r",":","b","l","u","e",";","f","o","n","t","-","s","i","z","e",":","1","2","e","m",";","b","o","g","u","s">>

CssDecls == {D_boldRed, D_italicBg, D_defaults, D_sizeAlign, D_family, D_familyEmpty, D_borderLeft, D_borderNone, D_borderMixed, D_hex3, D_hex4, D_rgbBig, D_named}

Classes == {"s1", "s2"}

---------------------------------------------------------------------------
(* HTML helpers *)

E_nbsp == <<"&","n","b","s","p",";">>
E_amp == <<"&","a","m","p",";">>
E_lt == <<"&","l","t",";">>
E_gt == <<"&","g","t",";">>
E_quot == <<"&","q","u","o","t",";">>
E_apos == <<"&","#","3","9",";">>

\* html.replace(/<[^>]*>/g, '')
RECURSIVE RemoveTags(_)
RemoveTags(s) ==
    LET opens == { i \in DOMAIN s :
                     s[i] = "<" /\ \E j \in (i + 1)..Len(s) : s[j] = ">" }
    IN IF opens = {} THEN s
       ELSE LET i == CHOOSE x \in opens : \A y \in opens : x <= y
                j == CHOOSE x \in (i + 1)..Len(s) :
                         s[x] = ">" /\ \A y \in (i + 1)..(x - 1) : s[y] # ">"
            IN SubSeq(s, 1, i - 1) \o RemoveTags(SubSeq(s, j + 1, Len(s)))

\* s.replace(/pat/g, rep) for a literal pat
RECURSIVE ReplaceAll(_, _, _)
ReplaceAll(s, pat, rep) ==
    LET at == { i \in 1..(Len(s) - Len(pat) + 1) :
                  SubSeq(s, i, i + Len(pat) - 1) = pat }
    IN IF at = {} THEN s
       ELSE LET i == CHOOSE x \in at : \A y \in at : x <= y
            IN SubSeq(s, 1, i - 1) \o rep
                 \o ReplaceAll(SubSeq(s, i + Len(pat), Len(s)), pat, rep)

\* stripTags
stripTags(html) ==
    trim(ReplaceAll(ReplaceAll(ReplaceAll(ReplaceAll(ReplaceAll(ReplaceAll(
        RemoveTags(html), E_nbsp, <<" ">>), E_amp, <<"&">>), E_lt, <<"<">>),
        E_gt, <<">">>), E_quot, <<"\"">>), E_apos, <<"'">>))

---------------------------------------------------------------------------
(* convertHtml: the cell walk *)

\* a cellRe that matches header cells too, /<t[dh]([^>]*)>.../
MatchesCellRe_th(cell) == cell.kind \in {"td", "th"}

\* cellRe = /<td([^>]*)>([\s\S]*?)<\/td>/gi matches data cells only
MatchesCellRe(cell) == cell.kind = "td"

\* attrs.match(/class=["']([^"']*)["']/i): the class token, '' without one.
\* A cell's attrs is the object of its attributes; class tokens are atomic
\* strings (already trimmed).
ClassOf(attrs) == IF Has(attrs, "class") THEN attrs.class ELSE ""

\* `if (s.k)`: the key is present and its value is not falsy
Truthy(s, k) ==
    /\ Has(s, k)
    /\ s[k] # (CASE k \in {"bold", "italic", "borderTop", "borderBottom",
                           "borderLeft", "borderRight"} -> FALSE
                 [] k = "fontSize" -> 0
                 [] OTHER -> <<>>)

\* fmt of a resolved style record s
CellFormat(s) ==
    LET keep == { k \in {"bold", "italic", "fontSize", "fontFamily", "align"} :
                    Truthy(s, k) }
                \cup { k \in {"color"}   : Truthy(s, k) /\ s[k] # V_black }
                \cup { k \in {"bgColor"} : Truthy(s, k) /\ s[k] # V_white }
    IN [k \in keep |-> s[k]]

\* s.borderTop || s.borderBottom || s.borderLeft || s.borderRight
AnyBorder(s) ==
    \/ Truthy(s, "borderTop") \/ Truthy(s, "borderBottom")
    \/ Truthy(s, "borderLeft") \/ Truthy(s, "borderRight")

\* the entry recorded in borders
CellBorders(s) ==
    [top    |-> Truthy(s, "borderTop"),
     bottom |-> Truthy(s, "borderBottom"),
     left   |-> Truthy(s, "borderLeft"),
     right  |-> Truthy(s, "borderRight")]

\* if (!m[r]) m[r] = {}; m[r][c] = v
PutCell(m, r, c, v) ==
    Put(m, r, Put(IF Has(m, r) THEN m[r] ELSE EmptyObj, c, v))

\* the body of the inner while loop for one matched cell; st holds rowData,
\* colIdx, formats and borders, r is rowIdx
CellStep(st, cell, map, r) ==
    LET cls      == ClassOf(cell.attrs)
        resolved == Has(map, cls)
        fmt      == CellFormat(map[cls])
    IN [rowData |-> Append(st.rowData, stripTags(cell.content)),
        colIdx  |-> st.colIdx + 1,
        formats |-> IF resolved /\ DOMAIN fmt # {}
                    THEN PutCell(st.formats, r, st.colIdx, fmt)
                    ELSE st.formats,
        borders |-> IF resolved /\ AnyBorder(map[cls])
                    THEN PutCell(st.borders, r, st.colIdx, CellBorders(map[cls]))
                    ELSE st.borders]

\* aoa[i].every(v => v === '')
AllEmpty(row) == \A i \in DOMAIN row : row[i] = <<>>

\* an `if` in place of the `while` of line 150: one row removed at most
LastRow_once(rows, i) ==
    IF i >= 0 /\ AllEmpty(rows[i + 1]) THEN i - 1 ELSE i

\* the loop of line 150, from lastRow = i (0-based); the final lastRow
RECURSIVE LastRow(_, _)
LastRow(rows, i) ==
    IF i >= 0 /\ AllEmpty(rows[i + 1]) THEN LastRow(rows, i - 1) ELSE i

\* trimmedData = aoa.slice(0, lastRow + 1)
TrimmedData(rows) == SubSeq(rows, 1, LastRow(rows, Len(rows) - 1) + 1)

---------------------------------------------------------------------------
(* Inputs: cells *)

\* ""
H_empty == <<>>
\* "&nbsp;"
H_nbsp == <<"&","n","b","s","p",";">>
\* "<b>x</b>"
H_x == <<"<","b",">","x","<","/","b",">">>
\* "a &amp; b"
H_amp == <<"a"," ","&","a","m","p",";"," ","b">>

CellContents == {H_nbsp, H_x}

NoAttrs == EmptyObj
ClassAttr(c) == [x \in {"class"} |-> c]

\* data cells with no class, a class of the style sheet, a class of no rule;
\* and a row-header cell
Cells ==
    { [kind |-> "td", attrs |-> a, content |-> h] :
        a \in {NoAttrs, ClassAttr("s1"), ClassAttr("zz")}, h \in CellContents }
    \cup { [kind |-> "th", attrs |-> ClassAttr("s1"), content |-> H_x] }


\* rules of the style sheet of a table document: none, one rule for s1, and
\* a class defined twice
TableDecls == {D_boldRed, D_defaults, D_sizeAlign, D_familyEmpty,
               D_borderLeft, D_borderNone, D_borderMixed}

TableRuleSets ==
    {<<>>}
    \cup { <<[cls |-> "s1", decls |-> d]>> : d \in TableDecls }
    \cup { <<[cls |-> "s1", decls |-> D_boldRed],
             [cls |-> "s1", decls |-> D_borderLeft]>> }

---------------------------------------------------------------------------
(* convertHtml as a state machine *)

ConvInit(start) ==
    /\ pc = start
    /\ cssRules = <<>>
    /\ styleMap = EmptyObj
    /\ tableIn = <<>>
    /\ rowIn = <<>>
    /\ aoa = <<>>
    /\ rowData = <<>>
    /\ colIdx = 0
    /\ rowIdx = 0
    /\ formats = EmptyObj
    /\ borders = EmptyObj
    /\ data = <<>>

BatchIdle ==
    /\ bpc = "idle"
    /\ srcDir = EmptyObj
    /\ outDir = EmptyObj
    /\ files = <<>>
    /\ fileIdx = 0
    /\ ok = 0
    /\ fail = 0
    /\ indexJson = [exists |-> FALSE, list |-> <<>>]
    /\ log = <<>>

\* one iteration of the while loop of line 82: cssRe matches a rule
StyleRule(rule) ==
    /\ pc = "style"
    /\ Len(cssRules) < MaxRules
    /\ cssRules' = Append(cssRules, rule)
    /\ styleMap' = ApplyRule(styleMap, rule)
    /\ UNCHANGED <<pc, tableIn, rowIn, aoa, rowData, colIdx, rowIdx, formats,
                   borders, data, batchVars>>

\* lines 75-85 as a whole, on the rules the document holds
BuildCss(rules) ==
    /\ pc = "start"
    /\ cssRules' = rules
    /\ styleMap' = BuildStyleMap(EmptyObj, rules)
    /\ pc' = "tbody"
    /\ UNCHANGED <<tableIn, rowIn, aoa, rowData, colIdx, rowIdx, formats,
                   borders, data, batchVars>>

\* lines 88-90: the tbody is found, or convertHtml throws
ExtractTbody(found) ==
    /\ pc = "tbody"
    /\ pc' = IF found THEN "rows" ELSE "failed"
    /\ UNCHANGED <<cssRules, styleMap, tableIn, rowIn, aoa, rowData, colIdx,
                   rowIdx, formats, borders, data, batchVars>>

CellsRead ==
    LET RECURSIVE Sum(_)
        Sum(rows) == IF rows = <<>> THEN 0 ELSE Len(Head(rows)) + Sum(Tail(rows))
    IN Sum(tableIn) + Len(rowIn)

\* lines 99-107: rowRe matches a row
RowStart ==
    /\ pc = "rows"
    /\ Len(aoa) < MaxRows
    /\ rowIdx' = Len(aoa)
    /\ rowData' = <<>>
    /\ colIdx' = 0
    /\ rowIn' = <<>>
    /\ pc' = "cells"
    /\ UNCHANGED <<cssRules, styleMap, tableIn, aoa, formats, borders, data,
                   batchVars>>

\* lines 108-144: the next cell of the row; cellRe passes over a cell it
\* does not match
ReadCell(cell) ==
    /\ pc = "cells"
    /\ CellsRead < MaxCells
    /\ rowIn' = Append(rowIn, cell)
    /\ IF MatchesCellRe(cell)
       THEN \E st \in {CellStep([rowData |-> rowData, colIdx |-> colIdx,
                                 formats |-> formats, borders |-> borders],
                                cell, styleMap, rowIdx)} :
               /\ rowData' = st.rowData
               /\ colIdx' = st.colIdx
               /\ formats' = st.formats
               /\ borders' = st.borders
       ELSE UNCHANGED <<rowData, colIdx, formats, borders>>
    /\ UNCHANGED <<pc, cssRules, styleMap, tableIn, aoa, rowIdx, data, batchVars>>

\* line 145: cellRe matches no further cell
RowEnd ==
    /\ pc = "cells"
    /\ aoa' = Append(aoa, rowData)
    /\ tableIn' = Append(tableIn, rowIn)
    /\ pc' = "rows"
    /\ UNCHANGED <<cssRules, styleMap, rowIn, rowData, colIdx, rowIdx, formats,
                   borders, data, batchVars>>

\* lines 148-156: rowRe matches no further row; trim and return
Finish ==
    /\ pc = "rows"
    /\ data' = TrimmedData(aoa)
    /\ pc' = "done"
    /\ UNCHANGED <<cssRules, styleMap, tableIn, rowIn, aoa, rowData, colIdx,
                   rowIdx, formats, borders, batchVars>>

InitCss == ConvInit("style") /\ BatchIdle

NextCss == \E c \in Classes, d \in CssDecls : StyleRule([cls |-> c, decls |-> d])

SpecCss == InitCss /\ [][NextCss]_vars

InitTable == ConvInit("start") /\ BatchIdle

NextTable ==
    \/ \E rules \in TableRuleSets : BuildCss(rules)
    \/ \E found \in BOOLEAN : ExtractTbody(found)
    \/ RowStart
    \/ \E cell \in Cells : ReadCell(cell)
    \/ RowEnd
    \/ Finish

SpecTable == InitTable /\ [][NextTable]_vars

---------------------------------------------------------------------------
(* convertHtml as a function of the document, for the main script *)

\* the inner while loop over the cells of one row
RECURSIVE RowFold(_, _, _, _)
RowFold(st, cells, map, r) ==
    IF cells = <<>> THEN st
    ELSE RowFold(IF MatchesCellRe(Head(cells))
                 THEN CellStep(st, Head(cells), map, r) ELSE st,
                 Tail(cells), map, r)

\* the while loop over the rows; acc holds aoa, formats and borders
RECURSIVE TableFold(_, _, _)
TableFold(acc, rows, map) ==
    IF rows = <<>> THEN acc
    ELSE LET st == RowFold([rowData |-> <<>>, colIdx |-> 0,
                            formats |-> acc.formats, borders |-> acc.borders],
                           Head(rows), map, Len(acc.aoa))
         IN TableFold([aoa |-> Append(acc.aoa, st.rowData),
                       formats |-> st.formats, borders |-> st.borders],
                      Tail(rows), map)

\* convertHtml of a document: it throws, or returns the document object
\* (JSON.stringify keeps the object; it is not modelled further)
ConvertHtml(doc) ==
    IF ~doc.tbody THEN [threw |-> TRUE, json |-> EmptyObj]
    ELSE LET acc == TableFold([aoa |-> <<>>, formats |-> EmptyObj,
                               borders |-> EmptyObj],
                              doc.rows, BuildStyleMap(EmptyObj, doc.rules))
         IN [threw |-> FALSE,
             json  |-> [version |-> 1, data |-> TrimmedData(acc.aoa),
                        formats |-> acc.formats, borders |-> acc.borders]]

---------------------------------------------------------------------------
(* Inputs: documents and file names *)

\* a document without <tbody>
DocNoTbody == [tbody |-> FALSE, rules |-> <<>>, rows |-> <<>>]

\* .s1{font-weight:bold;color:#FF0000}, one row of a styled and a plain cell
DocStyled ==
    [tbody |-> TRUE,
     rules |-> <<[cls |-> "s1", decls |-> D_boldRed]>>,
     rows  |-> << <<[kind |-> "td", attrs |-> ClassAttr("s1"), content |-> H_x],
                    [kind |-> "td", attrs |-> NoAttrs, content |-> H_amp]>>,
                  <<[kind |-> "th", attrs |-> NoAttrs, content |-> H_x],
                    [kind |-> "td", attrs |-> NoAttrs, content |-> H_empty]>> >>]

\* a document with an empty <tbody>
DocEmpty == [tbody |-> TRUE, rules |-> <<>>, rows |-> <<>>]

Docs == {DocNoTbody, DocStyled}

\* ".html"
X_html == <<".","h","t","m","l">>
\* ".htm"
X_htm == <<".","h","t","m">>
\* ".wsheet"
X_wsheet == <<".","w","s","h","e","e","t">>
\* "index.json"
N_index_json == <<"i","n","d","e","x",".","j","s","o","n">>
\* "a.html"
N_a_html == <<"a",".","h","t","m","l">>
\* "A.HTM"
N_A_HTM == <<"A",".","H","T","M">>
\* "b.htm"
N_b_htm == <<"b",".","h","t","m">>
\* "convert.js"
N_convert_js == <<"c","o","n","v","e","r","t",".","j","s">>
\* "B.WSHEET"
N_B_WSHEET == <<"B",".","W","S","H","E","E","T">>

\* the HTML exports DIR may hold beside convert.js
InNames == {N_a_html, N_A_HTM, N_b_htm}

---------------------------------------------------------------------------
(* Main script helpers *)

\* name ends with suffix, ignoring case
EndsWithCI(name, suffix) ==
    /\ Len(name) >= Len(suffix)
    /\ toLowerCase(SubSeq(name, Len(name) - Len(suffix) + 1, Len(name))) = suffix

\* /\.(html|htm)$/i.test(f)
IsHtmlName(f) == EndsWithCI(f, X_html) \/ EndsWithCI(f, X_htm)

\* file.replace(/\.(html|htm)$/i, '.wsheet')
OutName(f) ==
    IF EndsWithCI(f, X_html) THEN SubSeq(f, 1, Len(f) - Len(X_html)) \o X_wsheet
    ELSE IF EndsWithCI(f, X_htm) THEN SubSeq(f, 1, Len(f) - Len(X_htm)) \o X_wsheet
    ELSE f

\* /\.wsheet$/i.test(f)
IsWsheetName(f) == EndsWithCI(f, X_wsheet)

\* the collation order of the characters of file names: punctuation, digits,
\* letters; at sensitivity 'base' a letter and its capital are the same
Collation == <<".", "-", "_">> \o DigitChars \o LowerLetters

RankOf ==
    [c \in Range(Collation) |-> CHOOSE i \in DOMAIN Collation : Collation[i] = c]

CharRank(c) == RankOf[LowerChar(c)]

\* a.localeCompare(b, undefined, { sensitivity: 'base' }): -1, 0 or 1
RECURSIVE localeCompareBase(_, _)
localeCompareBase(a, b) ==
    IF a = <<>> /\ b = <<>> THEN 0
    ELSE IF a = <<>> THEN -1
    ELSE IF b = <<>> THEN 1
    ELSE IF CharRank(Head(a)) < CharRank(Head(b)) THEN -1
    ELSE IF CharRank(Head(a)) > CharRank(Head(b)) THEN 1
    ELSE localeCompareBase(Tail(a), Tail(b))

\* the order of code units: capitals before small letters
CodeUnits == <<"-", ".">> \o DigitChars \o UpperLetters \o <<"_">> \o LowerLetters

CodeUnitOf ==
    [c \in Range(CodeUnits) |-> CHOOSE i \in DOMAIN CodeUnits : CodeUnits[i] = c]

RECURSIVE CompareCodeUnits(_, _)
CompareCodeUnits(a, b) ==
    IF a = <<>> /\ b = <<>> THEN 0
    ELSE IF a = <<>> THEN -1
    ELSE IF b = <<>> THEN 1
    ELSE IF CodeUnitOf[Head(a)] < CodeUnitOf[Head(b)] THEN -1
    ELSE IF CodeUnitOf[Head(a)] > CodeUnitOf[Head(b)] THEN 1
    ELSE CompareCodeUnits(Tail(a), Tail(b))

\* the default comparator of sort(), with no localeCompare
IndexCompare_default(a, b) == CompareCodeUnits(a, b)

\* the comparator of line 189
IndexCompare(a, b) == localeCompareBase(a, b)

\* insert x into the sorted list after every element not greater than it
RECURSIVE InsertSorted(_, _)
InsertSorted(sorted, x) ==
    IF sorted = <<>> THEN <<x>>
    ELSE IF IndexCompare(Head(sorted), x) <= 0
    THEN <<Head(sorted)>> \o InsertSorted(Tail(sorted), x)
    ELSE <<x>> \o sorted

\* Array.prototype.sort with the comparator of line 189 (a stable sort)
RECURSIVE sort(_)
sort(list) ==
    IF list = <<>> THEN <<>>
    ELSE InsertSorted(sort(SubSeq(list, 1, Len(list) - 1)), list[Len(list)])

\* fs.readdirSync: the names of a directory in file-system order, which is
\* any order
RECURSIVE Listings(_)
Listings(names) ==
    IF names = {} THEN {<<>>}
    ELSE UNION { { <<n>> \o l : l \in Listings(names \ {n}) } : n \in names }

\* the names DATA_DIR holds: the outputs and, once written, index.json
DataDirNames ==
    DOMAIN outDir \cup (IF indexJson.exists THEN {N_index_json} ELSE {})

\* delete obj[k]
Remove(f, k) == [x \in (DOMAIN f) \ {k} |-> f[x]]

---------------------------------------------------------------------------
(* The main script as a state machine *)

\* what a file of DATA_DIR holds: a document object written whole, or the
\* beginning of one
Written(json) == [complete |-> TRUE, json |-> json]
Truncated == [complete |-> FALSE, json |-> EmptyObj]

\* an output left by an earlier run
OldOutput == Written(ConvertHtml(DocEmpty).json)

\* convertHtml on each of the documents
Converted == [d \in Docs |-> ConvertHtml(d)]

\* the errors the file system may raise in one iteration: none, in
\* readFileSync, in writeFileSync before or after the file is created, in
\* unlinkSync
IoErrors == {"none", "read", "write", "writeCreated", "unlink"}

\* the directories DIR may be at the start: convert.js and at most MaxFiles
\* HTML exports
SrcDirOf(f) ==
    [n \in (DOMAIN f) \cup {N_convert_js} |->
        IF n \in DOMAIN f THEN f[n] ELSE DocNoTbody]

InitialSrcDirs ==
    { SrcDirOf(f) :
        f \in UNION { [S -> Docs] :
                        S \in { T \in SUBSET InNames : Cardinality(T) <= MaxFiles } } }

InitialOutDirs == { EmptyObj, [n \in {N_B_WSHEET} |-> OldOutput] }

InitBatch ==
    /\ ConvInit("idle")
    /\ bpc = "start"
    /\ srcDir \in InitialSrcDirs
    /\ outDir \in InitialOutDirs
    /\ files = <<>>
    /\ fileIdx = 0
    /\ ok = 0
    /\ fail = 0
    /\ indexJson \in { [exists |-> FALSE, list |-> <<>>],
                       [exists |-> TRUE, list |-> <<>>] }
    /\ log = <<>>

\* lines 162-166: list DIR, keep the HTML files, exit when there is none
ListFiles(listing) ==
    /\ bpc = "start"
    /\ files' = SelectSeq(listing, IsHtmlName)
    /\ bpc' = IF files' = <<>> THEN "exit0" ELSE "loop"
    /\ UNCHANGED <<srcDir, outDir, fileIdx, ok, fail, indexJson, log, convVars>>

\* the try block of lines 174-178 on one file, conv being what convertHtml
\* does on it: what the block did before it returned or threw
TryBlock(conv, io) ==
    IF io = "read" \/ conv.threw
    THEN [threw |-> TRUE, wrote |-> FALSE, unlinked |-> FALSE, content |-> Truncated]
    ELSE IF io = "write"
    THEN [threw |-> TRUE, wrote |-> FALSE, unlinked |-> FALSE, content |-> Truncated]
    ELSE IF io = "writeCreated"
    THEN [threw |-> TRUE, wrote |-> TRUE, unlinked |-> FALSE, content |-> Truncated]
    ELSE IF io = "unlink"
    THEN [threw |-> TRUE, wrote |-> TRUE, unlinked |-> FALSE,
          content |-> Written(conv.json)]
    ELSE [threw |-> FALSE, wrote |-> TRUE, unlinked |-> TRUE,
          content |-> Written(conv.json)]

\* a catch block that gives the batch up
NextFileIdx_abort(i, threw) == IF threw THEN Len(files) ELSE i + 1

\* the for-of loop moves to the next file, after ok++ and after the catch
NextFileIdx(i, threw) == i + 1

\* lines 169-183: one iteration of the loop
ConvertFile(io) ==
    /\ bpc = "loop"
    /\ fileIdx < Len(files)
    /\ \E file \in {files[fileIdx + 1]} :
       \E r \in {TryBlock(Converted[srcDir[file]], io)} :
          /\ outDir' = IF r.wrote THEN Put(outDir, OutName(file), r.content)
                       ELSE outDir
          /\ srcDir' = IF r.unlinked THEN Remove(srcDir, file) ELSE srcDir
          /\ ok' = IF r.threw THEN ok ELSE ok + 1
          /\ fail' = IF r.threw THEN fail + 1 ELSE fail
          /\ log' = Append(log, [file |-> file, doc |-> srcDir[file],
                                 threw |-> r.threw, wrote |-> r.wrote,
                                 unlinked |-> r.unlinked])
          /\ fileIdx' = NextFileIdx(fileIdx, r.threw)
    /\ UNCHANGED <<bpc, files, indexJson, convVars>>

\* lines 184-195: after the loop, list DATA_DIR, keep the .wsheet files,
\* sort them and write index.json; readdirSync or writeFileSync may throw
RebuildIndex(listing, ioOk) ==
    /\ bpc = "loop"
    /\ fileIdx >= Len(files)
    /\ IF ioOk
       THEN /\ indexJson' = [exists |-> TRUE,
                             list |-> sort(SelectSeq(listing, IsWsheetName))]
            /\ bpc' = "done"
       ELSE /\ bpc' = "crashed"
            /\ UNCHANGED indexJson
    /\ UNCHANGED <<srcDir, outDir, files, fileIdx, ok, fail, log, convVars>>

NextBatch ==
    \/ \E l \in Listings(DOMAIN srcDir) : ListFiles(l)
    \/ \E io \in IoErrors : ConvertFile(io)
    \/ \E l \in Listings(DataDirNames), ioOk \in BOOLEAN : RebuildIndex(l, ioOk)

SpecBatch == InitBatch /\ [][NextBatch]_vars

\* the script is sequential code: it runs on until it ends
SpecBatchFair == SpecBatch /\ WF_vars(NextBatch)

---------------------------------------------------------------------------
(* Properties of convertHtml *)

\* the data cells among the cells of a row, in document order
DataCells(cells) == SelectSeq(cells, LAMBDA c : c.kind = "td")

\* the cells read of row r (0-based): a finished row, or the current one
InputRow(r) == IF r < Len(tableIn) THEN tableIn[r + 1] ELSE rowIn

\* the rows read so far, the current one included
RowsRead == 0..(Len(tableIn) - (IF pc = "cells" THEN 0 ELSE 1))

\* <<r, c>> of every data cell processed so far
Processed ==
    { rc \in RowsRead \X (0..MaxCells) : rc[2] < Len(DataCells(InputRow(rc[1]))) }

CellAt(rc) == DataCells(InputRow(rc[1]))[rc[2] + 1]

HasEntry(m, rc) == Has(m, rc[1]) /\ Has(m[rc[1]], rc[2])

EmptyText(row) == \A i \in DOMAIN row : Len(row[i]) = 0

\* C1: in the document returned, every row key of formats and of borders is
\* below the number of rows of the trimmed data
C1_RowKeysWithinData ==
    pc = "done" =>
        \A r \in (DOMAIN formats) \cup (DOMAIN borders) : r < Len(data)

\* C2: the data returned is the collected rows without their maximal trailing
\* run of all-empty rows: a prefix, whose last row has a non-empty cell, every
\* removed row all-empty, and an all-empty row before a non-empty one kept at
\* its index
C2_TrimsTrailingRun ==
    pc = "done" =>
        /\ Len(data) <= Len(aoa)
        /\ \A i \in 1..Len(data) : data[i] = aoa[i]
        /\ data # <<>> => ~EmptyText(data[Len(data)])
        /\ \A i \in (Len(data) + 1)..Len(aoa) : EmptyText(aoa[i])
        /\ \A i \in 1..Len(aoa) :
              (EmptyText(aoa[i]) /\ \E j \in (i + 1)..Len(aoa) : ~EmptyText(aoa[j]))
                  => (i <= Len(data) /\ data[i] = aoa[i])

\* an all-empty row kept before a non-empty row, and a trailing row of one
\* empty cell removed
C2_Witness ==
    /\ pc = "done"
    /\ Len(aoa) = 3
    /\ EmptyText(aoa[1])
    /\ ~EmptyText(aoa[2])
    /\ aoa[3] # <<>> /\ EmptyText(aoa[3])
    /\ Len(data) = 2

\* the format the claim C7 gives a resolved style record: text colour when
\* present and not black, background when present and not white, and each of
\* bold, italic, fontSize, fontFamily, align when present
C7_Format(s) ==
    [k \in { k \in {"bold", "italic", "fontSize", "fontFamily", "align"} : Has(s, k) }
           \cup { k \in {"color"}   : Has(s, k) /\ s[k] # V_black }
           \cup { k \in {"bgColor"} : Has(s, k) /\ s[k] # V_white }
       |-> s[k]]

\* C7: a data cell whose class is in no rule has no formats entry; one whose
\* class resolves has an entry exactly when the format of C7_Format is not
\* empty, and the entry is that format
C7_FormatInclusion ==
    \A rc \in Processed :
        LET cls == ClassOf(CellAt(rc).attrs) IN
        IF ~Has(styleMap, cls) THEN ~HasEntry(formats, rc)
        ELSE /\ HasEntry(formats, rc) <=> DOMAIN C7_Format(styleMap[cls]) # {}
             /\ HasEntry(formats, rc) =>
                    formats[rc[1]][rc[2]] = C7_Format(styleMap[cls])

\* the pieces of a declaration list that declare key, in order
DeclsOf(decls, key) ==
    SelectSeq(split(decls, ";"),
              LAMBDA raw : /\ \E i \in DOMAIN raw : raw[i] = ":"
                           /\ toLowerCase(trim(Head(split(raw, ":")))) = key)

\* the value of a declaration: what follows its first colon
ValueOf(raw) ==
    LET colon == CHOOSE i \in DOMAIN raw :
                     raw[i] = ":" /\ \A j \in 1..(i - 1) : raw[j] # ":"
    IN SubSeq(raw, colon + 1, Len(raw))

\* the last rule of the style sheet for a class
LastRuleOf(cls) ==
    cssRules[CHOOSE i \in DOMAIN cssRules :
                 /\ cssRules[i].cls = cls
                 /\ \A j \in DOMAIN cssRules : cssRules[j].cls = cls => j <= i]

BorderSides ==
    { <<"borderTop", K_border_top>>, <<"borderBottom", K_border_bottom>>,
      <<"borderLeft", K_border_left>>, <<"borderRight", K_border_right>> }

\* the flag of a side in record s: true only when declared and not none
Flag(s, k) == Has(s, k) /\ s[k]

\* C8: a border declaration sets its side to true unless its lower-cased
\* value contains none, and then to false; a data cell has a borders entry
\* exactly when its class resolves and one of the four flags is true, and the
\* entry holds the four booleans, a side not declared being false
C8_Borders ==
    /\ \A cls \in DOMAIN styleMap : \A side \in BorderSides :
          LET ds == DeclsOf(LastRuleOf(cls).decls, side[2]) IN
          IF ds = <<>> THEN ~Has(styleMap[cls], side[1])
          ELSE /\ Has(styleMap[cls], side[1])
               /\ styleMap[cls][side[1]] =
                      ~includes(toLowerCase(ValueOf(ds[Len(ds)])), V_none)
    /\ \A rc \in Processed :
          LET cls == ClassOf(CellAt(rc).attrs) IN
          /\ HasEntry(borders, rc) <=>
                 /\ Has(styleMap, cls)
                 /\ \E side \in BorderSides : Flag(styleMap[cls], side[1])
          /\ HasEntry(borders, rc) =>
                 borders[rc[1]][rc[2]] =
                     [top    |-> Flag(styleMap[cls], "borderTop"),
                      bottom |-> Flag(styleMap[cls], "borderBottom"),
                      left   |-> Flag(styleMap[cls], "borderLeft"),
                      right  |-> Flag(styleMap[cls], "borderRight")]

\* a cell of a class with border-top set and border-bottom "0 none" has the
\* entry top only, and a cell of the same row has none
C8_Witness ==
    /\ pc = "done"
    /\ cssRules = <<[cls |-> "s1", decls |-> D_borderMixed]>>
    /\ \E rc \in Processed :
          /\ HasEntry(borders, rc)
          /\ borders[rc[1]][rc[2]] =
                 [top |-> TRUE, bottom |-> FALSE, left |-> FALSE, right |-> FALSE]
    /\ \E rc \in Processed : ~HasEntry(borders, rc)

\* the texts of the data cells of a row
TextsOf(cells) == [i \in DOMAIN DataCells(cells) |-> stripTags(DataCells(cells)[i].content)]

\* the keys <<r, c>> of a sparse map
KeysOf(m) == { rc \in (DOMAIN m) \X (0..MaxCells) : Has(m[rc[1]], rc[2]) }

\* C9: header cells affect neither data nor indices: every collected row is
\* the texts of its data cells in order, the column index is the number of
\* data cells read of the row (0 at its start), the row index is the number of
\* rows collected before, and every key of formats and borders is the place
\* of a data cell of that row, whose class gives the entry
C9_HeaderCellsSkipped ==
    /\ Len(aoa) = Len(tableIn)
    /\ \A r \in 1..Len(aoa) : aoa[r] = TextsOf(tableIn[r])
    /\ pc = "cells" =>
          /\ rowData = TextsOf(rowIn)
          /\ colIdx = Len(DataCells(rowIn))
          /\ rowIdx = Len(aoa)
    /\ \A r \in DOMAIN formats : DOMAIN formats[r] \subseteq 0..MaxCells
    /\ \A r \in DOMAIN borders : DOMAIN borders[r] \subseteq 0..MaxCells
    /\ \A rc \in KeysOf(formats) :
          /\ rc \in Processed
          /\ Has(styleMap, ClassOf(CellAt(rc).attrs))
          /\ formats[rc[1]][rc[2]] = CellFormat(styleMap[ClassOf(CellAt(rc).attrs)])
    /\ \A rc \in KeysOf(borders) :
          /\ rc \in Processed
          /\ Has(styleMap, ClassOf(CellAt(rc).attrs))
          /\ borders[rc[1]][rc[2]] = CellBorders(styleMap[ClassOf(CellAt(rc).attrs)])

\* a row of a header cell followed by a styled data cell: the data cell is
\* column 0 of its row
C9_Witness ==
    /\ pc = "done"
    /\ \E r \in 1..Len(tableIn) :
          /\ Len(tableIn[r]) = 2
          /\ tableIn[r][1].kind = "th"
          /\ tableIn[r][2].kind = "td"
          /\ Len(aoa[r]) = 1
          /\ HasEntry(formats, <<r - 1, 0>>)

---------------------------------------------------------------------------
(* Properties of the style map *)

StyleProps == {"bold", "italic", "color", "bgColor", "align", "fontSize",
               "fontFamily", "borderTop", "borderBottom", "borderLeft",
               "borderRight"}

\* the rules of the style sheet, by position, that are for cls and set prop
Setters(cls, prop) ==
    { i \in DOMAIN cssRules :
        cssRules[i].cls = cls /\ Has(parseCssClass(cssRules[i].decls), prop) }

\* C6: rules for the same class accumulate, the last definition winning per
\* property: the record of a class holds, for each property some rule of the
\* class sets, the value of the last rule that sets it
C6_LastWinsPerProperty ==
    \A cls \in Classes : \A prop \in StyleProps :
        Setters(cls, prop) # {} =>
            LET last == CHOOSE i \in Setters(cls, prop) :
                            \A j \in Setters(cls, prop) : j <= i
            IN /\ Has(styleMap, cls)
               /\ Has(styleMap[cls], prop)
               /\ styleMap[cls][prop] = parseCssClass(cssRules[last].decls)[prop]

\* C10: every colour stored in a style record is '#' and exactly 3 or exactly
\* 6 lower-case hex digits
C10_ColorShape ==
    \A cls \in DOMAIN styleMap :
        \A k \in {"color", "bgColor"} \cap DOMAIN styleMap[cls] :
            LET c == styleMap[cls][k] IN
            /\ Len(c) \in {4, 7}
            /\ c[1] = "#"
            /\ \A i \in 2..Len(c) : c[i] \in Range(HexChars)

---------------------------------------------------------------------------
(* Properties of the main script *)

\* the loop over files is over
LoopOver == bpc # "start" /\ fileIdx >= Len(files)

\* C3: a source file is deleted only after its conversion succeeded and its
\* output was written; a file counted as failed still has its source file
\* and no output was written for it, at whatever step it failed
C3_FailedLeavesNoOutput ==
    \A i \in DOMAIN log :
        /\ log[i].unlinked => (~log[i].threw /\ log[i].wrote)
        /\ log[i].threw => (log[i].file \in DOMAIN srcDir /\ ~log[i].wrote)

\* files[1..n] has been attempted, each file once and in order, each with the
\* outcome its own content gives
AttemptedInOrder ==
    /\ Len(log) = fileIdx
    /\ fileIdx <= Len(files)
    /\ \A i \in DOMAIN log :
          /\ log[i].file = files[i]
          /\ ConvertHtml(log[i].doc).threw => (log[i].threw /\ ~log[i].wrote)
          /\ ~log[i].threw =>
                /\ ~ConvertHtml(log[i].doc).threw
                /\ Has(outDir, OutName(log[i].file))
                /\ outDir[OutName(log[i].file)] =
                       Written(ConvertHtml(log[i].doc).json)
                /\ ~Has(srcDir, log[i].file)
    /\ ok = Cardinality({ i \in DOMAIN log : ~log[i].threw })
    /\ fail = Cardinality({ i \in DOMAIN log : log[i].threw })

\* C4: a document without table body fails alone: the loop counts it, goes
\* on, and in the end has attempted every listed file once and in order, with
\* ok + fail the number of files listed, the files after a failed one
\* converted as their own content gives
C4_BatchContinues ==
    /\ [](AttemptedInOrder /\ (LoopOver => ok + fail = Len(files)))
    /\ <>LoopOver

\* a document without table body fails first and the next file is converted
C4_Witness ==
    /\ LoopOver
    /\ Len(log) = 2
    /\ ConvertHtml(log[1].doc).threw
    /\ log[1].threw
    /\ ~log[2].threw
    /\ ok = 1 /\ fail = 1

\* the .wsheet files DATA_DIR holds
WsheetsPresent == { n \in DOMAIN outDir : IsWsheetName(n) }

\* index.json lists the .wsheet files of DATA_DIR, each once, in an order
\* that ignores case
IndexIsListing ==
    /\ indexJson.exists
    /\ Len(indexJson.list) = Cardinality(WsheetsPresent)
    /\ Range(indexJson.list) = WsheetsPresent
    /\ \A i, j \in DOMAIN indexJson.list :
          i < j => localeCompareBase(indexJson.list[i], indexJson.list[j]) <= 0

=============================================================================
